---- MODULE Spec2Model ----
(***************************************************************************)
(* Gmail AI Triage (src/app.js): the page's state and its event handlers.  *)
(*                                                                         *)
(* One action is one turn of the browser's event loop: a click handler run *)
(* up to its first network await, or the continuation that runs when the   *)
(* awaited response arrives, up to the next network await or the end of    *)
(* the handler.  Strings that the code inspects character by character     *)
(* (the From header) are sequences of one-character strings.               *)
(***************************************************************************)
EXTENDS Integers, Sequences, FiniteSets, TLC

\* ---------------------------------------------------------------- bounds
\* Largest number of message ids a listing returns.
MaxIds == 2
\* Largest number of async handlers suspended at a network await at once.
MaxPending == 1
\* Number of scans that may complete in one behaviour (the clock's range).
MaxScans == 1

\* ------------------------------------------------------------- utilities
Min(S) == CHOOSE x \in S : \A y \in S : x <= y
Max(S) == CHOOSE x \in S : \A y \in S : x >= y

RECURSIVE SeqSum(_)
SeqSum(s) == IF s = <<>> THEN 0 ELSE Head(s) + SeqSum(Tail(s))

RECURSIVE Flatten(_)
Flatten(ss) == IF ss = <<>> THEN <<>> ELSE Head(ss) \o Flatten(Tail(ss))

Range(s) == {s[i] : i \in 1..Len(s)}

\* ------------------------------------------------------ character strings
\* String.prototype.toLowerCase over the alphabet of the modelled headers.
LowerChar(c) == CASE c = "A" -> "a" [] c = "B" -> "b" [] OTHER -> c
toLowerCase(s) == [i \in 1..Len(s) |-> LowerChar(s[i])]

\* String.prototype.trim
trim(s) ==
  LET ink == {i \in 1..Len(s) : s[i] # " "}
  IN IF ink = {} THEN <<>> ELSE SubSeq(s, Min(ink), Max(ink))

\* The capture of the leftmost match of /<([^>]+)>/ as a one-element
\* sequence, or <<>> when the regular expression does not match.
AngleMatch(s) ==
  LET closes(i) == {j \in (i + 1)..Len(s) : s[j] = ">"}
      starts == {i \in 1..Len(s) :
                   /\ s[i] = "<"
                   /\ closes(i) # {}
                   /\ Min(closes(i)) > i + 1}
  IN IF starts = {} THEN <<>>
     ELSE LET i == Min(starts) IN <<SubSeq(s, i + 1, Min(closes(i)) - 1)>>

Unknown == <<"(", "u", "n", "k", "n", "o", "w", "n", ")">>

normalizeSender(fromHeader) ==
  LET m == AngleMatch(fromHeader)
  IN IF m # <<>> THEN toLowerCase(trim(m[1]))
     ELSE LET t == toLowerCase(trim(fromHeader))
          IN IF t = <<>> THEN Unknown ELSE t

\* ------------------------------------------------------------ data model
\* DEFAULTS.batchSize, and the fallbacks of saveSettings and scan.
DefaultBatchSize == 10
\* render: a group of more than 12 emails starts collapsed.
CollapseLimit == 12

\* The values the user can leave in the settings form when a handler reads it
\* (groqModel, maxMessages and query are passed through to the remote services
\* unread and are left out).  batchSize is the field after Number(value || 10).
FormInputs ==
  { [googleClientId |-> "cid", groqKey |-> "gsk", batchSize |-> 1],
    [googleClientId |-> "",    groqKey |-> "",    batchSize |-> 0] }

\* The access token Google Identity Services hands to the callback.
GrantedToken == "ya29"

\* From headers: a display name with an address, and none.
FromHeaders ==
  { <<"A", " ", "<", "B", ">">>, <<>> }

\* The From header of the messages the scanned mailbox holds.
MailboxFrom == {<<"A", " ", "<", "B", ">">>}

\* The action the model may answer with besides leaving an email out: trash,
\* in another case than the code compares with.
RemoteActions == {"Trash"}

\* String.prototype.toLowerCase on a decision's action.
LowerAction(a) == IF a = "Trash" THEN "trash" ELSE a

\* A variant that keeps what the model left out.
DefaultKeep(id) ==
  [id |-> id, action |-> "keep", category |-> "other", summary |-> "",
   reason |-> "No decision."]

\* groqClassifyBatch, line 205: the decision of an email the model left out.
DefaultDecision(id) ==
  [id |-> id, action |-> "review", category |-> "other", summary |-> "",
   reason |-> "No decision."]

\* A decision as the model returns it for message id with action a.
RemoteDecision(id, a) ==
  [id |-> id, action |-> a, category |-> "promo", summary |-> "short",
   reason |-> "why"]

\* --------------------------------------------------------------- render
\* pillClass
pillClass(action) ==
  LET a == LowerAction(IF action = "" THEN "review" ELSE action)
  IN IF a = "keep" THEN "keep" ELSE IF a = "trash" THEN "trash" ELSE "review"

IsAction(e, a) == LowerAction(e.decision.action) = a

\* A variant that compares the action without toLowerCase.
CountActionExact(emails, a) ==
  Cardinality({i \in 1..Len(emails) : emails[i].decision.action = a})

\* Lines 265-266: emails.filter(e => (e.decision?.action||"").toLowerCase()
\* === a).length
CountAction(emails, a) ==
  Cardinality({i \in 1..Len(emails) : IsAction(emails[i], a)})

\* Array.prototype.sort with (a,b) => len(b) - len(a): a stable sort of the
\* group indexes by descending group size.
SortedSenders(grouped) ==
  LET n == Len(grouped)
      before(i, j) ==
        \/ Len(grouped[i].emails) > Len(grouped[j].emails)
        \/ Len(grouped[i].emails) = Len(grouped[j].emails) /\ i < j
      rank(i) == 1 + Cardinality({j \in 1..n : before(j, i)})
  IN [r \in 1..n |-> CHOOSE i \in 1..n : rank(i) = r]

\* One email row of the rendered list (lines 314-336).
RenderRow(e) ==
  [id |-> e.id,
   pill |-> pillClass(e.decision.action),
   category |-> IF e.decision.category = "" THEN "other" ELSE e.decision.category,
   summary |-> e.decision.summary,
   reason |-> e.decision.reason,
   trashed |-> e.trashed]

\* One sender section (lines 261-291).
RenderGroup(g) ==
  LET keepCount == CountAction(g.emails, "keep")
      trashCount == CountAction(g.emails, "trash")
  IN [sender |-> g.sender,
      sample |-> g.fromHeaderSample,
      total |-> Len(g.emails),
      keep |-> keepCount,
      trash |-> trashCount,
      review |-> Len(g.emails) - keepCount - trashCount,
      rows |-> [i \in 1..Len(g.emails) |-> RenderRow(g.emails[i])]]

\* render(state): what #results and #summary show.
render(state) ==
  LET order == SortedSenders(state.grouped)
      secs == [r \in 1..Len(order) |-> RenderGroup(state.grouped[order[r]])]
  IN [groups |-> secs,
      summary |-> [total |-> state.total,
                   keep |-> SeqSum([r \in 1..Len(secs) |-> secs[r].keep]),
                   trash |-> SeqSum([r \in 1..Len(secs) |-> secs[r].trash]),
                   review |-> SeqSum([r \in 1..Len(secs) |-> secs[r].review])]]

\* Line 290: the sections (by rendered position) that start collapsed.
InitiallyCollapsed(state) ==
  LET order == SortedSenders(state.grouped)
  IN {r \in 1..Len(order) : Len(state.grouped[order[r]].emails) > CollapseLimit}

\* A variant that loses the _trashed flag of an email.
JsonEmailWithoutFlag(e) ==
  [id |-> e.id, from |-> e.from, sender |-> e.sender,
   decision |-> [id |-> e.decision.id, action |-> e.decision.action,
                 category |-> e.decision.category,
                 summary |-> e.decision.summary, reason |-> e.decision.reason],
   trashed |-> FALSE]

\* JSON.stringify / JSON.parse of a snapshot: a deep copy that keeps the key
\* order of `grouped` and drops nothing the snapshot holds.
JsonEmail(e) ==
  [id |-> e.id, from |-> e.from, sender |-> e.sender,
   decision |-> [id |-> e.decision.id, action |-> e.decision.action,
                 category |-> e.decision.category,
                 summary |-> e.decision.summary, reason |-> e.decision.reason],
   trashed |-> e.trashed]

JsonCopy(state) ==
  [generatedAt |-> state.generatedAt,
   total |-> state.total,
   grouped |-> [g \in 1..Len(state.grouped) |->
                  [sender |-> state.grouped[g].sender,
                   fromHeaderSample |-> state.grouped[g].fromHeaderSample,
                   emails |-> [i \in 1..Len(state.grouped[g].emails) |->
                                 JsonEmail(state.grouped[g].emails[i])]]]]

\* ----------------------------------------------------- groqClassifyBatch
\* A variant that pairs the emails with the decisions by position.
MergeByPosition(emails, decisions) ==
  [i \in 1..Len(emails) |->
     [id |-> emails[i].id, from |-> emails[i].from, sender |-> emails[i].sender,
      decision |-> IF i <= Len(decisions) THEN decisions[i]
                   ELSE DefaultDecision(emails[i].id),
      trashed |-> FALSE]]

\* A variant that maps over the response instead of the batch: one result per
\* decision that names an email of the batch, in the response's order.
MergeInResponseOrder(emails, decisions) ==
  LET known == SelectSeq(decisions,
                         LAMBDA d : \E i \in 1..Len(emails) : emails[i].id = d.id)
  IN [j \in 1..Len(known) |->
        LET e == emails[CHOOSE i \in 1..Len(emails) : emails[i].id = known[j].id]
        IN [id |-> e.id, from |-> e.from, sender |-> e.sender,
            decision |-> known[j], trashed |-> FALSE]]

\* Lines 202-205: byId = new Map(decisions.map(d => [d.id, d])) keeps the last
\* decision of an id; every input email gets byId.get(e.id) or the default.
MergeDecisions(emails, decisions) ==
  [i \in 1..Len(emails) |->
     LET hits == {j \in 1..Len(decisions) : decisions[j].id = emails[i].id}
     IN [id |-> emails[i].id, from |-> emails[i].from, sender |-> emails[i].sender,
         decision |-> IF hits = {} THEN DefaultDecision(emails[i].id)
                      ELSE decisions[Max(hits)],
         trashed |-> FALSE]]

\* What the classification endpoint may answer for a batch: a non-2xx status,
\* a 2xx whose message content is not JSON, a 2xx whose JSON has no `decisions`
\* array, or a decisions array.  The array lists, in reverse batch order, a
\* decision for any subset of the batch, then one for an id not in the batch.
ReplyDecisions(batch) ==
  { LET n == Len(batch)
        chosen == [r \in 1..n |-> pick[n + 1 - r]]
        listed == SelectSeq([r \in 1..n |-> [i |-> n + 1 - r, a |-> chosen[r]]],
                            LAMBDA x : x.a # "")
    IN [j \in 1..Len(listed) |-> RemoteDecision(batch[listed[j].i].id, listed[j].a)]
       \o <<RemoteDecision(0, "Trash")>>
    : pick \in [1..Len(batch) -> RemoteActions \cup {""}] }

ClassifyReplies(batch) ==
  { [kind |-> "http_error"], [kind |-> "bad_json"], [kind |-> "no_array"] }
  \cup { [kind |-> "decisions", decisions |-> d] : d \in ReplyDecisions(batch) }

\* A variant without the `|| 10`.
ClampWithoutDefault(batchSize) == IF batchSize < 1 THEN 1 ELSE batchSize

\* Line 218: Math.max(1, settings.batchSize || 10)
ClampBatch(batchSize) ==
  LET b == IF batchSize = 0 THEN DefaultBatchSize ELSE batchSize
  IN IF b < 1 THEN 1 ELSE b

\* ------------------------------------------------------------------ scan
\* Lines 226-231: group the labeled emails by sender key, groups in order of
\* first appearance, emails in scan order.
SenderKey(e) == IF e.sender = <<>> THEN Unknown ELSE e.sender

groupBySender(labeled) ==
  LET firsts == {i \in 1..Len(labeled) :
                   \A j \in 1..(i - 1) : SenderKey(labeled[j]) # SenderKey(labeled[i])}
      nth(r) == CHOOSE i \in firsts : Cardinality({j \in firsts : j < i}) = r - 1
  IN [r \in 1..Cardinality(firsts) |->
        [sender |-> SenderKey(labeled[nth(r)]),
         fromHeaderSample |-> labeled[nth(r)].from,
         emails |-> SelectSeq(labeled,
                              LAMBDA e : SenderKey(e) = SenderKey(labeled[nth(r)]))]]

\* The lower-case property names every object inherits from Object.prototype.
\* `grouped` is a plain {} object: for such a key grouped[key] is the inherited
\* value, so line 229 creates no group and grouped[key].emails.push (line 230)
\* throws a TypeError.
InheritedKeys ==
  { <<"c", "o", "n", "s", "t", "r", "u", "c", "t", "o", "r">>,
    <<"_", "_", "p", "r", "o", "t", "o", "_", "_">> }

groupThrows(labeled) ==
  \E i \in 1..Len(labeled) : SenderKey(labeled[i]) \in InheritedKeys

\* Lines 233-238: the snapshot a scan builds at time t.
BuildSnapshot(labeled, t) ==
  [generatedAt |-> t, total |-> Len(labeled), grouped |-> groupBySender(labeled)]

\* All emails of a snapshot, group by group.
AllEmails(state) ==
  Flatten([g \in 1..Len(state.grouped) |-> state.grouped[g].emails])

EmailIds(state) == {e.id : e \in Range(AllEmails(state))}

TrashedIds(state) == {e.id : e \in {x \in Range(AllEmails(state)) : x.trashed}}

\* ----------------------------------------------------------------- state
VARIABLES
  settingsDoc,  \* localStorage[LS_KEY]: <<>> or <<settings>>
  lastScan,     \* localStorage[LS_LAST]: <<>> or <<snapshot>>
  accessToken,  \* the bearer token, "" when null
  consentOpen,  \* a requestAccessToken call whose callback has not run yet
  objs,         \* the snapshot objects the view or a suspended handler holds
  view,         \* #results and #summary: the object rendered, and the rendering
  scans,        \* the scans suspended at a network await
  pending,      \* the trash handlers suspended at a network await
  status,       \* what the last turn wrote to #status, Unchanged if nothing
  now,          \* the clock new Date() reads, one tick per completed scan
  done          \* the handler that ended in the last turn, and how it ended

vars == <<settingsDoc, lastScan, accessToken, consentOpen,
          objs, view, scans, pending, status, now, done>>

Slots == 1..MaxPending
ScanSlots == 1..MaxScans
ObjIds == 1..(MaxPending + 2)

Free == [kind |-> "free"]
None == [kind |-> "none"]
Blank == [obj |-> 0, dom |-> <<>>, collapsed |-> {}]
Error(msg) == [k |-> "Error", msg |-> msg]
Unchanged == [k |-> "(unchanged)"]

HoldsObj(hd) == hd.kind \in {"trash", "bulk"}

\* The objects a closure can still reach: the rendered one first, then those
\* of the suspended handlers.  Objects nothing reaches are dropped, and the
\* others are numbered in this order.
RECURSIVE RefOrder(_, _, _)
RefOrder(acc, p, h) ==
  IF h > MaxPending THEN acc
  ELSE RefOrder(IF HoldsObj(p[h]) /\ p[h].obj \notin Range(acc)
                  THEN Append(acc, p[h].obj) ELSE acc, p, h + 1)

Commit(o, v, p) ==
  LET order == RefOrder(IF v.obj = 0 THEN <<>> ELSE <<v.obj>>, p, 1)
      pos(x) == CHOOSE i \in 1..Len(order) : order[i] = x
  IN /\ objs' = [i \in ObjIds |-> IF i <= Len(order) THEN o[order[i]] ELSE <<>>]
     /\ view' = IF v.obj = 0 THEN v ELSE [v EXCEPT !.obj = pos(@)]
     /\ pending' = [h \in Slots |->
                      IF HoldsObj(p[h]) THEN [p[h] EXCEPT !.obj = pos(@)] ELSE p[h]]

HasFreeSlot == \E h \in Slots : pending[h] = Free
FreeSlot == Min({h \in Slots : pending[h] = Free})
NewObj == Min({o \in ObjIds : objs[o] = <<>>})

\* The view render(state) leaves, state being the object o.
Rendered(o, state) ==
  [obj |-> o, dom |-> <<render(state)>>, collapsed |-> InitiallyCollapsed(state)]

\* What localStorage may hold when the page loads: nothing, or the snapshot an
\* earlier session's scan left (one email, suggested trash).
PriorSnapshot ==
  LET h == CHOOSE f \in MailboxFrom : TRUE
      metas == <<[id |-> 1, from |-> h, sender |-> normalizeSender(h)]>>
  IN BuildSnapshot(MergeDecisions(metas, <<RemoteDecision(1, "Trash")>>), 0)

Init ==
  /\ settingsDoc = <<>>
  /\ lastScan \in {<<>>, <<JsonCopy(PriorSnapshot)>>}
  /\ accessToken = ""
  /\ consentOpen = FALSE
  /\ objs = [o \in ObjIds |-> <<>>]
  /\ view = Blank
  /\ scans = [h \in ScanSlots |-> Free]
  /\ pending = [h \in Slots |-> Free]
  /\ status = Unchanged
  /\ now = 1
  /\ done = None

\* ------------------------------------------------- settings and connection
\* saveSettings, as the click handler of #btnSave.
Save(s) ==
  /\ settingsDoc' = <<s>>
  /\ status' = [k |-> "Saved"]
  /\ done' = [kind |-> "save", outcome |-> "ok"]
  /\ UNCHANGED <<lastScan, accessToken, consentOpen, objs, view, scans, pending, now>>

\* The click handler of #btnConnect (lines 387-395) with ensureTokenClient;
\* gis tells whether the Google Identity library has loaded.
Connect(s, gis) ==
  /\ settingsDoc' = <<s>>
  /\ IF s.googleClientId = ""
       THEN /\ status' = Error("Missing Google Client ID")
            /\ done' = [kind |-> "connect", outcome |-> "caught"]
            /\ UNCHANGED consentOpen
     ELSE IF ~gis
       THEN /\ status' = Error("Google Identity library not loaded")
            /\ done' = [kind |-> "connect", outcome |-> "caught"]
            /\ UNCHANGED consentOpen
     ELSE /\ consentOpen' = TRUE
          /\ status' = [k |-> "Opening Google consent"]
          /\ done' = [kind |-> "connect", outcome |-> "ok"]
  /\ UNCHANGED <<lastScan, accessToken, objs, view, scans, pending, now>>

\* The token client's callback (lines 94-103).
TokenCallback(granted) ==
  /\ consentOpen
  /\ consentOpen' = FALSE
  /\ IF granted
       THEN accessToken' = GrantedToken /\ status' = [k |-> "Gmail connected"]
       ELSE accessToken' = accessToken /\ status' = [k |-> "No access token returned"]
  /\ done' = None
  /\ UNCHANGED <<settingsDoc, lastScan, objs, view, scans, pending, now>>

\* disconnect
Disconnect ==
  /\ accessToken' = ""
  /\ status' = [k |-> "Disconnected"]
  /\ done' = None
  /\ UNCHANGED <<settingsDoc, lastScan, consentOpen, objs, view, scans, pending, now>>

\* A variant without the check.
gmailFetchUnchecked(token) == TRUE

\* gmailFetch, line 111: the request goes out only with a token.
gmailFetchAllowed(token) == token # ""

\* ------------------------------------------------------------------ scan
ScansInFlight == Cardinality({h \in ScanSlots : scans[h].kind = "scan"})
HasFreeScanSlot == \E h \in ScanSlots : scans[h] = Free
FreeScanSlot == Min({h \in ScanSlots : scans[h] = Free})

\* The catch of the #btnScan click handler (lines 402-404): the scan in slot h
\* (0: a scan that has not suspended yet) ends with the error as status text.
\* v is the view the scan leaves; `done` notes how many emails it had labeled.
ScanAbort(h, msg, v) ==
  /\ scans' = IF h = 0 THEN scans ELSE [scans EXCEPT ![h] = Free]
  /\ status' = Error(msg)
  /\ done' = [kind |-> "scan", outcome |-> "caught", slot |-> h,
              labeled |-> IF h = 0 THEN 0 ELSE Len(scans[h].labeled)]
  /\ Commit(objs, v, pending)
  /\ UNCHANGED <<lastScan, now>>

\* The scan in slot h suspends at its next await as hd.
ScanSuspend(h, hd, v, text) ==
  /\ scans' = [scans EXCEPT ![h] = hd]
  /\ status' = text
  /\ done' = None
  /\ Commit(objs, v, pending)
  /\ UNCHANGED <<lastScan, now>>

\* A variant whose serialisation loses the _trashed flags.
PersistedWithoutFlags(state) ==
  LET doc == JsonCopy(state)
  IN <<[doc EXCEPT !.grouped =
          [g \in 1..Len(doc.grouped) |->
             [doc.grouped[g] EXCEPT !.emails =
                [i \in 1..Len(doc.grouped[g].emails) |->
                   [doc.grouped[g].emails[i] EXCEPT !.trashed = FALSE]]]]]>>

\* Line 240 (and 309, 340, 349): localStorage.setItem(LS_LAST,
\* JSON.stringify(state)).
Persisted(state) == <<JsonCopy(state)>>

\* Lines 226-242: group, build the snapshot, persist it, render it.

\* `done` notes the ids listed and the number of groqClassifyBatch calls made.
ScanFinish(h, labeled, doc) ==
  LET state == BuildSnapshot(labeled, now)
  IN /\ lastScan' = doc
     /\ Commit([objs EXCEPT ![NewObj] = <<state>>], Rendered(NewObj, state), pending)
     /\ scans' = [scans EXCEPT ![h] = Free]
     /\ status' = [k |-> "Done", total |-> state.total]
     /\ now' = now + 1
     /\ done' = [kind |-> "scan", outcome |-> "ok",
                 ids |-> [i \in 1..Len(labeled) |-> labeled[i].id],
                 listed |-> scans[h].ids, calls |-> scans[h].calls,
                 batchSize |-> scans[h].settings.batchSize]

\* The click handler of #btnScan up to the first await: saveSettings, clear
\* #results and #summary, listMessageIds (lines 209-214).
ScanClick(s) ==
  /\ (now - 1) + ScansInFlight < MaxScans
  /\ HasFreeScanSlot
  /\ settingsDoc' = <<s>>
  /\ IF ~gmailFetchAllowed(accessToken)
       THEN ScanAbort(0, "Not connected to Gmail yet", Blank)
       ELSE ScanSuspend(FreeScanSlot,
                        [kind |-> "scan", await |-> "list", settings |-> s,
                         ids |-> <<>>, metas |-> <<>>, labeled |-> <<>>,
                         calls |-> 0],
                        Blank, [k |-> "Scanning"])
  /\ UNCHANGED <<accessToken, consentOpen>>

\* The scan in slot h goes on to its next await after the listing or a
\* metadata fetch returned: the next getMessageMeta (line 216), else the first
\* groqClassifyBatch (lines 218-221, 160), else the end of the scan.
ScanAfterMeta(h, ids, metas) ==
  IF Len(metas) < Len(ids)
    THEN IF ~gmailFetchAllowed(accessToken)
           THEN ScanAbort(h, "Not connected to Gmail yet", view)
           ELSE ScanSuspend(h, [scans[h] EXCEPT !.await = "meta", !.ids = ids,
                                                !.metas = metas], view, Unchanged)
  ELSE IF metas = <<>>
    THEN ScanFinish(h, <<>>, Persisted(BuildSnapshot(<<>>, now)))
  ELSE IF scans[h].settings.groqKey = ""
    THEN ScanAbort(h, "Missing Groq API key", view)
  ELSE ScanSuspend(h, [scans[h] EXCEPT !.await = "classify", !.ids = ids,
                                       !.metas = metas, !.calls = 1],
                   view, Unchanged)

\* The response to listMessageIds arrives: an error status, or n ids.
ScanListReply(h, ok, n) ==
  /\ scans[h].kind = "scan" /\ scans[h].await = "list"
  /\ IF ~ok
       THEN ScanAbort(h, "Gmail API error", view)
       ELSE ScanAfterMeta(h, [i \in 1..n |-> i], <<>>)
  /\ UNCHANGED <<settingsDoc, accessToken, consentOpen>>

\* The response to getMessageMeta arrives: an error status, or the message
\* with its From header (lines 146-156).
ScanMetaReply(h, ok, from) ==
  /\ scans[h].kind = "scan" /\ scans[h].await = "meta"
  /\ IF ~ok
       THEN ScanAbort(h, "Gmail API error", view)
       ELSE LET id == scans[h].ids[Len(scans[h].metas) + 1]
                meta == [id |-> id, from |-> from, sender |-> normalizeSender(from)]
            IN ScanAfterMeta(h, scans[h].ids, Append(scans[h].metas, meta))
  /\ UNCHANGED <<settingsDoc, accessToken, consentOpen>>

\* The batch the scan hd is classifying: metas.slice(i, i + batchSize) with i
\* the number of emails labeled so far.
CurrentBatch(hd) ==
  LET i == Len(hd.labeled)
      b == ClampBatch(hd.settings.batchSize)
  IN SubSeq(hd.metas, i + 1, IF i + b > Len(hd.metas) THEN Len(hd.metas) ELSE i + b)

\* Lines 199-202: the decisions array read from a 2xx response.
ParsedDecisions(reply) ==
  IF reply.kind = "decisions" THEN reply.decisions ELSE <<>>

\* groqClassifyBatch from the response on (lines 194-205): the error it throws
\* ("" when it returns) and the labeled emails it returns.  JSON.parse throws
\* a SyntaxError on content that is not JSON.
ClassifyResult(emails, reply) ==
  IF reply.kind = "http_error" THEN [threw |-> "Groq API error", out |-> <<>>]
  ELSE IF reply.kind = "bad_json" THEN [threw |-> "SyntaxError", out |-> <<>>]
  ELSE [threw |-> "", out |-> MergeDecisions(emails, ParsedDecisions(reply))]

\* A variant that writes LS_LAST after every batch.
DocAfterEveryBatch(doc, labeled, total, t) == Persisted(BuildSnapshot(labeled, t))

\* Lines 220-240: LS_LAST after a batch came back, the scan having labeled
\* `labeled` of `total` emails: written once the loop has ended, not before.
DocAfterBatch(doc, labeled, total, t) ==
  IF Len(labeled) < total THEN doc ELSE Persisted(BuildSnapshot(labeled, t))

\* The response to groqClassifyBatch arrives (lines 194-205, 222-224).
ScanClassifyReply(h) ==
  /\ scans[h].kind = "scan" /\ scans[h].await = "classify"
  /\ \E reply \in ClassifyReplies(CurrentBatch(scans[h])) :
       LET res == ClassifyResult(CurrentBatch(scans[h]), reply)
           labeled == scans[h].labeled \o res.out
           total == Len(scans[h].metas)
       IN IF res.threw # ""
            THEN ScanAbort(h, res.threw, view)
          ELSE IF Len(labeled) < total
            THEN /\ scans' = [scans EXCEPT ![h] = [@ EXCEPT !.labeled = labeled,
                                                             !.calls = @ + 1]]
                 /\ status' = [k |-> "Processed",
                               n |-> Min({Len(scans[h].labeled)
                                            + ClampBatch(scans[h].settings.batchSize),
                                          total}),
                               of |-> total]
                 /\ done' = None
                 /\ lastScan' = DocAfterBatch(lastScan, labeled, total, now)
                 /\ UNCHANGED <<view, objs, pending, now>>
          ELSE IF groupThrows(labeled)
            THEN ScanAbort(h, "TypeError", view)
          ELSE ScanFinish(h, labeled, DocAfterBatch(lastScan, labeled, total, now))
  /\ UNCHANGED <<settingsDoc, accessToken, consentOpen>>

\* loadLast
LoadLast ==
  /\ IF lastScan = <<>>
       THEN /\ status' = [k |-> "No last scan saved yet"]
            /\ UNCHANGED <<view, objs, pending>>
       ELSE LET state == JsonCopy(lastScan[1])
            IN /\ Commit([objs EXCEPT ![NewObj] = <<state>>],
                         Rendered(NewObj, state), pending)
               /\ status' = [k |-> "Loaded last scan", total |-> state.total]
  /\ done' = [kind |-> "loadLast", outcome |-> "ok"]
  /\ UNCHANGED <<settingsDoc, lastScan, accessToken, consentOpen, scans, now>>

\* ------------------------------------------------------- view interaction
\* The object behind the view, and the group behind its r-th section.
Shown == objs[view.obj][1]
SectionGroup(r) == SortedSenders(Shown.grouped)[r]
Sections == IF view.dom = <<>> THEN {} ELSE 1..Len(view.dom[1].groups)
Rows(r) == 1..Len(view.dom[1].groups[r].rows)

\* localStorage.setItem(LS_LAST, JSON.stringify(state)); render(state) for the
\* object o after a handler changed it to state, with handlers p suspended.
PersistAndRender(o, state, p) ==
  /\ lastScan' = Persisted(state)
  /\ Commit([objs EXCEPT ![o] = <<state>>], Rendered(o, state), p)

\* The Toggle button of section r (lines 293-296).
Toggle(r) ==
  /\ r \in Sections
  /\ view' = [view EXCEPT !.collapsed =
                IF r \in @ THEN @ \ {r} ELSE @ \cup {r}]
  /\ done' = None
  /\ status' = Unchanged
  /\ UNCHANGED <<settingsDoc, lastScan, accessToken, consentOpen, objs, scans,
                 pending, now>>

\* A variant that builds the decision afresh instead of spreading the old one.
KeptFresh(d) ==
  [id |-> d.id, action |-> "keep", category |-> "other", summary |-> "",
   reason |-> "Manually kept."]

\* Line 339: the decision a manual Keep leaves.
KeptDecision(d) == [d EXCEPT !.action = "keep", !.reason = "Manually kept."]

\* The Keep button of row k of section r (lines 338-342).
KeepClick(r, k) ==
  /\ r \in Sections /\ k \in Rows(r)
  /\ LET g == SectionGroup(r)
         state == [Shown EXCEPT !.grouped[g].emails[k].decision = KeptDecision(@)]
     IN /\ PersistAndRender(view.obj, state, pending)
        /\ done' = [kind |-> "keep", outcome |-> "ok", g |-> g, k |-> k]
  /\ status' = Unchanged
  /\ UNCHANGED <<settingsDoc, accessToken, consentOpen, scans, now>>

\* A variant that ignores what confirm() returned.
ProceedsAnyway(answer) == TRUE

\* Lines 301 and 345: the handler goes on only when the user accepts the
\* confirmation.
Proceeds(answer) == answer

\* The Trash button of row k of section r up to its await (lines 344-347);
\* answer is what the user answers to confirm().
TrashClick(r, k, answer) ==
  /\ r \in Sections /\ k \in Rows(r)
  /\ IF ~Proceeds(answer)
       THEN /\ done' = None
            /\ status' = Unchanged
            /\ UNCHANGED <<pending, objs, view>>
     ELSE IF ~gmailFetchAllowed(accessToken)
       THEN /\ status' = [k |-> "Trashing", n |-> 1]
            /\ done' = [kind |-> "trash", outcome |-> "uncaught", slot |-> 0,
                        g |-> SectionGroup(r), k |-> k, calls |-> 1,
                        confirmed |-> answer]
            /\ UNCHANGED <<pending, objs, view>>
     ELSE /\ HasFreeSlot
          /\ Commit(objs, view, [pending EXCEPT ![FreeSlot] =
               [kind |-> "trash", obj |-> view.obj, g |-> SectionGroup(r), k |-> k,
                confirmed |-> answer]])
          /\ status' = [k |-> "Trashing", n |-> 1]
          /\ done' = None
  /\ UNCHANGED <<settingsDoc, lastScan, accessToken, consentOpen, scans, now>>

\* A variant that flags every email of the group.
MarkGroupTrashed(state, g, k) ==
  [state EXCEPT !.grouped[g].emails =
     [i \in 1..Len(@) |-> [@[i] EXCEPT !.trashed = TRUE]]]

\* Line 348: e._trashed = true for email k of group g.
MarkEmailTrashed(state, g, k) ==
  [state EXCEPT !.grouped[g].emails[k].trashed = TRUE]

\* The response to the manual trashMessage arrives (lines 347-351).  A failure
\* rejects the handler's promise, which nothing catches.
TrashReply(h, ok) ==
  /\ pending[h].kind = "trash"
  /\ LET hd == pending[h]
         p == [pending EXCEPT ![h] = Free]
     IN /\ IF ok
             THEN /\ PersistAndRender(hd.obj,
                                      MarkEmailTrashed(objs[hd.obj][1], hd.g, hd.k), p)
                  /\ status' = [k |-> "Trashed"]
             ELSE /\ Commit(objs, view, p)
                  /\ status' = Unchanged
                  /\ UNCHANGED lastScan
        /\ done' = [kind |-> "trash", outcome |-> IF ok THEN "ok" ELSE "uncaught",
                    slot |-> h, g |-> hd.g, k |-> hd.k, calls |-> 1,
                    confirmed |-> hd.confirmed]
  /\ UNCHANGED <<settingsDoc, accessToken, consentOpen, scans, now>>

\* ----------------------------------------------------------- bulk trash
\* A variant that does not look at the _trashed flag.
BulkSelectFlagged(emails) ==
  LET sel == SelectSeq(emails, LAMBDA e : IsAction(e, "trash"))
  IN [i \in 1..Len(sel) |-> sel[i].id]

\* Line 299: the ids "Trash suggested" selects in a group.
BulkSelect(emails) ==
  LET sel == SelectSeq(emails, LAMBDA e : IsAction(e, "trash") /\ ~e.trashed)
  IN [i \in 1..Len(sel) |-> sel[i].id]

\* Line 308: for (const e of emails) if (ids.includes(e.id)) e._trashed = true,
\* whatever the outcome of the calls (okIds are the ids whose call succeeded).
MarkTrashed(emails, ids, okIds) ==
  [i \in 1..Len(emails) |->
     IF emails[i].id \in Range(ids) THEN [emails[i] EXCEPT !.trashed = TRUE]
     ELSE emails[i]]

\* Lines 308-311: the end of the bulk handler hd, run from slot h (0: a handler
\* that never suspended).
BulkFinish(h, hd) ==
  LET p == IF h = 0 THEN pending ELSE [pending EXCEPT ![h] = Free]
      old == objs[hd.obj][1]
      state == [old EXCEPT !.grouped[hd.g].emails = MarkTrashed(@, hd.ids, hd.okIds)]
  IN /\ PersistAndRender(hd.obj, state, p)
     /\ status' = [k |-> "Trashed", ok |-> hd.ok, of |-> Len(hd.ids)]
     /\ done' = [kind |-> "bulk", outcome |-> "ok", slot |-> h, g |-> hd.g,
                 ids |-> hd.ids, okIds |-> hd.okIds, confirmed |-> hd.confirmed]

\* Lines 305-307 from the call for ids[hd.pos] on: without a token every
\* remaining call fails before any request is sent and the loop runs to its
\* end in this turn; with a token the handler suspends at the request.
BulkRun(h, hd) ==
  IF hd.pos > Len(hd.ids) \/ ~gmailFetchAllowed(accessToken)
    THEN BulkFinish(h, hd)
    ELSE /\ Commit(objs, view, [pending EXCEPT ![IF h = 0 THEN FreeSlot ELSE h] = hd])
         /\ done' = None
         /\ UNCHANGED lastScan
         /\ status' = IF h = 0 THEN [k |-> "Trashing", n |-> Len(hd.ids)] ELSE Unchanged

\* The "Trash suggested" button of section r up to its first await
\* (lines 298-306).
BulkClick(r, answer) ==
  /\ r \in Sections
  /\ LET g == SectionGroup(r)
         ids == BulkSelect(Shown.grouped[g].emails)
     IN IF ids = <<>> \/ ~Proceeds(answer)
          THEN /\ done' = None
               /\ status' = Unchanged
               /\ UNCHANGED <<lastScan, view, objs, pending>>
          ELSE /\ gmailFetchAllowed(accessToken) => HasFreeSlot
               /\ BulkRun(0, [kind |-> "bulk", obj |-> view.obj, g |-> g, ids |-> ids,
                              pos |-> 1, ok |-> 0, okIds |-> {}, confirmed |-> answer])
  /\ UNCHANGED <<settingsDoc, accessToken, consentOpen, scans, now>>

\* The response to the bulk handler's trashMessage arrives (lines 306-307).
BulkReply(h, ok) ==
  /\ pending[h].kind = "bulk"
  /\ LET hd == pending[h]
     IN BulkRun(h, [hd EXCEPT !.pos = @ + 1,
                              !.ok = IF ok THEN @ + 1 ELSE @,
                              !.okIds = IF ok THEN @ \cup {hd.ids[hd.pos]} ELSE @])
  /\ UNCHANGED <<settingsDoc, accessToken, consentOpen, scans, now>>

\* ------------------------------------------------------------ specification
Next ==
  \/ \E s \in FormInputs : Save(s)
  \/ \E s \in FormInputs, gis \in BOOLEAN : Connect(s, gis)
  \/ \E granted \in BOOLEAN : TokenCallback(granted)
  \/ Disconnect
  \/ \E s \in FormInputs : ScanClick(s)
  \/ \E h \in ScanSlots, ok \in BOOLEAN, n \in 0..MaxIds : ScanListReply(h, ok, n)
  \/ \E h \in ScanSlots, ok \in BOOLEAN, from \in MailboxFrom : ScanMetaReply(h, ok, from)
  \/ \E h \in ScanSlots : ScanClassifyReply(h)
  \/ LoadLast
  \/ \E r \in Sections : Toggle(r)
  \/ \E r \in Sections : \E k \in Rows(r) : KeepClick(r, k)
  \/ \E r \in Sections : \E k \in Rows(r) : \E answer \in BOOLEAN : TrashClick(r, k, answer)
  \/ \E h \in Slots, ok \in BOOLEAN : TrashReply(h, ok)
  \/ \E r \in Sections, answer \in BOOLEAN : BulkClick(r, answer)
  \/ \E h \in Slots, ok \in BOOLEAN : BulkReply(h, ok)

Spec == Init /\ [][Next]_vars

\* ------------------------------------------- groqClassifyBatch on its own
\* Largest batch and longest decisions array handed to groqClassifyBatch.
MaxBatch == 2
MaxDecisions == 3

SeqsUpTo(S, n) == UNION {[1..m -> S] : m \in 0..n}

\* Batches of distinct message ids, and decisions arrays in any order, with
\* ids of the batch, other ids, and repeated ids.
ProbeBatches ==
  { [i \in 1..Len(ids) |-> [id |-> ids[i], from |-> <<>>, sender |-> Unknown]] :
      ids \in {x \in SeqsUpTo(1..MaxIds, MaxBatch) :
                 \A i, j \in 1..Len(x) : i # j => x[i] # x[j]} }

ProbeReplies ==
  { [kind |-> "http_error"], [kind |-> "bad_json"], [kind |-> "no_array"] }
  \cup { [kind |-> "decisions", decisions |-> d] :
           d \in SeqsUpTo({RemoteDecision(id, a) :
                             id \in 1..(MaxIds + 1), a \in {"keep", "Trash"}},
                          MaxDecisions) }

\* One call of groqClassifyBatch with a key configured, on a freshly loaded
\* page: the batch, the response and the result are left in `done`.
ClassifyProbe ==
  /\ done = None
  /\ \E emails \in ProbeBatches, reply \in ProbeReplies :
       done' = [kind |-> "classified", emails |-> emails, reply |-> reply,
                result |-> ClassifyResult(emails, reply)]
  /\ UNCHANGED <<settingsDoc, lastScan, accessToken, consentOpen, objs, view,
                 scans, pending, status, now>>

SpecClassify == Init /\ [][ClassifyProbe]_vars

\* ------------------------------------------------- grouping on its own
\* Longest sequence of labeled emails handed to the grouping loop.
MaxLabeled == 3

\* From headers of the grouped emails: two spellings of one address, none,
\* an empty address, and an address that names an inherited property.
GroupHeaders ==
  { <<"A", " ", "<", "B", ">">>, <<"B">>, <<>>, <<"<", " ", ">">>,
    <<"<", "c", "o", "n", "s", "t", "r", "u", "c", "t", "o", "r", ">">> }

ProbeLabeled ==
  { [i \in 1..Len(hs) |->
       [id |-> i, from |-> hs[i], sender |-> normalizeSender(hs[i]),
        decision |-> DefaultDecision(i), trashed |-> FALSE]] :
      hs \in SeqsUpTo(GroupHeaders, MaxLabeled) }

\* Lines 226-231 and 256: the grouping loop and the order render gives the
\* groups; threw is "" when the loop ran to its end.
GroupResult(labeled) ==
  IF groupThrows(labeled) THEN [threw |-> "TypeError", grouped |-> <<>>, order |-> <<>>]
  ELSE [threw |-> "", grouped |-> groupBySender(labeled),
        order |-> SortedSenders(groupBySender(labeled))]

\* One run of the grouping loop on a freshly loaded page.
GroupProbe ==
  /\ done = None
  /\ \E labeled \in ProbeLabeled :
       done' = [kind |-> "grouped", labeled |-> labeled,
                result |-> GroupResult(labeled)]
  /\ UNCHANGED <<settingsDoc, lastScan, accessToken, consentOpen, objs, view,
                 scans, pending, status, now>>

SpecGroup == Init /\ [][GroupProbe]_vars

\* -------------------------------------------- normalizeSender on its own
\* Longest From header handed to normalizeSender.
MaxHeaderLen == 4

\* From headers over a letter, a space and the two angle brackets.
ProbeHeaders == SeqsUpTo({"A", " ", "<", ">"}, MaxHeaderLen)

\* One call of normalizeSender, and a second call on its result.
NormalizeProbe ==
  /\ done = None
  /\ \E from \in ProbeHeaders :
       done' = [kind |-> "normalized", from |-> from,
                sender |-> normalizeSender(from),
                again |-> normalizeSender(normalizeSender(from))]
  /\ UNCHANGED <<settingsDoc, lastScan, accessToken, consentOpen, objs, view,
                 scans, pending, status, now>>

SpecNormalize == Init /\ [][NormalizeProbe]_vars

\* ------------------------------------------------------ scan on its own
\* Largest listing and largest batch size of a scan run on its own.
MaxListed == 4
MaxBatchSize == 3

\* Settings forms with both keys and a batch size field that is negative,
\* zero or positive.
ScanForms ==
  { [googleClientId |-> "cid", groqKey |-> "gsk", batchSize |-> b] :
      b \in (0 - 1)..MaxBatchSize }

\* A page that has connected to Gmail and has no stored scan.
InitConnected ==
  /\ settingsDoc = <<>>
  /\ lastScan = <<>>
  /\ accessToken = GrantedToken
  /\ consentOpen = FALSE
  /\ objs = [o \in ObjIds |-> <<>>]
  /\ view = Blank
  /\ scans = [h \in ScanSlots |-> Free]
  /\ pending = [h \in Slots |-> Free]
  /\ status = Unchanged
  /\ now = 1
  /\ done = None

\* The Scan button and the responses to the scan's requests.
NextScan ==
  \/ \E s \in ScanForms : ScanClick(s)
  \/ \E h \in ScanSlots, ok \in BOOLEAN, n \in 0..MaxListed : ScanListReply(h, ok, n)
  \/ \E h \in ScanSlots, ok \in BOOLEAN, from \in MailboxFrom : ScanMetaReply(h, ok, from)
  \/ \E h \in ScanSlots : ScanClassifyReply(h)

SpecScan == InitConnected /\ [][NextScan]_vars

\* ------------------------------------------------------------ properties
\* The object a handler that ended in this step worked on, before the step:
\* the rendered one for a handler that never suspended (slot 0).
ObjBefore(slot) == IF slot = 0 THEN Shown ELSE objs[pending[slot].obj][1]
\* The object the step rendered.
ObjAfter == objs'[view'.obj][1]

\* C1: when a bulk "Trash suggested" ends, the emails it newly flagged trashed,
\* in memory and in the persisted snapshot, are exactly the selected ids whose
\* trashMessage call succeeded, and the status reports succeeded/attempted.
C1_BulkFlagsOnlySucceeded ==
  [][done'.kind = "bulk" =>
       LET before == TrashedIds(ObjBefore(done'.slot))
       IN /\ TrashedIds(ObjAfter) \ before = done'.okIds
          /\ TrashedIds(lastScan'[1]) \ before = done'.okIds
          /\ status' = [k |-> "Trashed", ok |-> Cardinality(done'.okIds),
                        of |-> Len(done'.ids)]]_vars

\* C2: a scan that fails writes the error to #status, leaves LS_LAST as it was
\* and runs no further step; a scan step writes LS_LAST only as the scan's
\* last step, and then the snapshot holds every listed id.
C2_FailedScanKeepsLastScan ==
  [][/\ (done'.kind = "scan" /\ done'.outcome = "caught") =>
          /\ lastScan' = lastScan
          /\ status'.k = "Error"
          /\ \A h \in ScanSlots : scans'[h] # scans[h] => scans'[h] = Free
     /\ (scans' # scans /\ lastScan' # lastScan) =>
          /\ done'.kind = "scan" /\ done'.outcome = "ok"
          /\ \E h \in ScanSlots :
               /\ scans[h].kind = "scan" /\ scans'[h] = Free
               /\ EmailIds(lastScan'[1]) = Range(scans[h].ids)
               /\ lastScan'[1].total = Len(scans[h].ids)]_vars

\* A scan whose second batch failed, over an earlier session's snapshot.
C2_Witness ==
  /\ done.kind = "scan" /\ done.outcome = "caught" /\ done.labeled = 1
  /\ status = Error("Groq API error")
  /\ lastScan = Persisted(PriorSnapshot)

\* C3: a trashMessage request is in flight, or a trashMessage call was made,
\* only in a Trash or "Trash suggested" handler whose confirm() was accepted;
\* and a handler suspends at such a request only in a turn that went past the
\* confirmation (the turn that writes "Trashing N").
C3_TrashOnlyAfterConfirm ==
  [][/\ \A h \in Slots :
          pending'[h] # Free => pending'[h].kind \in {"trash", "bulk"}
                                /\ pending'[h].confirmed
     /\ \A h \in Slots :
          (pending[h] = Free /\ pending'[h] # Free) => status'.k = "Trashing"
     /\ done'.kind \in {"trash", "bulk"} => done'.confirmed
     /\ \A h \in ScanSlots :
          scans'[h] # Free => scans'[h].await \in {"list", "meta", "classify"}]_vars

C3_Witness ==
  \E h \in Slots : pending[h].kind = "trash" /\ pending[h].confirmed
                   /\ \E x \in ScanSlots : scans[x] # Free

\* C4: a confirmed manual Trash makes one trashMessage call; when the call
\* succeeds exactly that email is flagged trashed and the object is persisted
\* and rendered; when it fails no object, LS_LAST and the view stay as they were.
C4_ManualTrash ==
  [][done'.kind = "trash" =>
       /\ done'.calls = 1
       /\ done'.slot # 0 => pending'[done'.slot] = Free
       /\ done'.outcome = "ok" =>
            LET before == ObjBefore(done'.slot)
                e == before.grouped[done'.g].emails[done'.k]
                after == [before EXCEPT !.grouped[done'.g].emails[done'.k] =
                                           [e EXCEPT !.trashed = TRUE]]
            IN /\ ObjAfter = after
               /\ lastScan' = <<after>>
               /\ view'.dom = <<render(after)>>
       /\ done'.outcome # "ok" =>
            /\ lastScan' = lastScan
            /\ view'.dom = view.dom
            /\ Range(objs') \subseteq Range(objs)]_vars

C4_Witness ==
  /\ done.kind = "trash" /\ done.outcome = "uncaught" /\ done.slot # 0
  /\ lastScan # <<>> /\ TrashedIds(lastScan[1]) = {}

\* C5: no handler ends with an exception nothing catches, and a handler that
\* fails leaves an error in #status.
C5_FailuresBecomeStatus ==
  /\ done.kind # "none" => done.outcome # "uncaught"
  /\ (done.kind # "none" /\ done.outcome # "ok") => status.k = "Error"

\* C6: on a 2xx response whose content is not JSON, or has no decisions
\* array, groqClassifyBatch returns every input email with the default
\* decision.
C6_MalformedJsonDegrades ==
  (done.kind = "classified" /\ done.reply.kind \in {"bad_json", "no_array"}) =>
     /\ done.result.threw = ""
     /\ Len(done.result.out) = Len(done.emails)
     /\ \A i \in 1..Len(done.emails) :
          done.result.out[i].decision = DefaultDecision(done.emails[i].id)

\* C7: whatever decisions the response lists, the sequence groqClassifyBatch
\* returns has the length of the batch and its ids in the batch's order.
C7_SameIdsSameOrder ==
  (done.kind = "classified" /\ done.result.threw = "") =>
     /\ Len(done.result.out) = Len(done.emails)
     /\ \A i \in 1..Len(done.emails) : done.result.out[i].id = done.emails[i].id

C7_Witness ==
  /\ done.kind = "classified" /\ done.reply.kind = "decisions"
  /\ Len(done.emails) = 2 /\ Len(done.reply.decisions) = 3
  /\ done.reply.decisions[1].id = done.emails[2].id
  /\ done.reply.decisions[2].id = done.emails[1].id
  /\ done.reply.decisions[3].id = done.emails[1].id
  /\ done.result.threw = ""

\* The ids the response's decisions name.
DecidedIds(reply) == {d.id : d \in Range(ParsedDecisions(reply))}

\* C8 as stated: an email the response has no decision for gets exactly
\* {action: review, category: other, summary: "", reason: "no decision"}.
C8_DefaultAsStated ==
  (done.kind = "classified" /\ done.result.threw = "") =>
     \A i \in 1..Len(done.emails) :
        done.emails[i].id \notin DecidedIds(done.reply) =>
          done.result.out[i].decision =
            [action |-> "review", category |-> "other", summary |-> "",
             reason |-> "no decision"]

\* C8 amended: such an email gets {id: its own id, action: review, category:
\* other, summary: "", reason: "No decision."}.
C8_DefaultDecision ==
  (done.kind = "classified" /\ done.result.threw = "") =>
     \A i \in 1..Len(done.emails) :
        done.emails[i].id \notin DecidedIds(done.reply) =>
          done.result.out[i].decision =
            [id |-> done.emails[i].id, action |-> "review", category |-> "other",
             summary |-> "", reason |-> "No decision."]

C8_Witness ==
  /\ done.kind = "classified" /\ done.reply.kind = "decisions"
  /\ Len(done.emails) = 2
  /\ DecidedIds(done.reply) = {done.emails[2].id, MaxIds + 1}

\* What a manual Keep on email k of group g makes of the object `before`,
\* the reason being `reason`: the email's action and reason change, nothing else.
KeptObject(before, g, k, reason) ==
  LET e == before.grouped[g].emails[k]
  IN [before EXCEPT !.grouped[g].emails[k] =
        [e EXCEPT !.decision =
           [id |-> e.decision.id, action |-> "keep",
            category |-> e.decision.category, summary |-> e.decision.summary,
            reason |-> reason]]]

KeepLeaves(reason) ==
  done'.kind = "keep" =>
    LET after == KeptObject(Shown, done'.g, done'.k, reason)
    IN /\ ObjAfter = after
       /\ lastScan' = <<after>>
       /\ view'.dom = <<render(after)>>
       /\ scans' = scans
       /\ \A h \in Slots : pending'[h].kind = pending[h].kind

\* C9 as stated: Keep sets the action to keep and the reason to "manually
\* kept", sends nothing, persists and renders, and changes nothing else.
C9_KeepAsStated == [][KeepLeaves("manually kept")]_vars

\* C9 amended: the same with the reason "Manually kept.".
C9_ManualKeep == [][KeepLeaves("Manually kept.")]_vars

C9_Witness ==
  /\ done.kind = "keep"
  /\ \E e \in Range(AllEmails(Shown)) :
       /\ e.decision.action = "keep" /\ e.decision.category = "promo"
       /\ e.trashed
  /\ Len(AllEmails(Shown)) = 2

\* What the view would show of the stored snapshot.
StoredView == IF lastScan = <<>> THEN <<>> ELSE <<render(lastScan[1])>>

\* C10 as stated: after every Scan, Load-last, Keep, Trash and "Trash
\* suggested", however it ended, the view shows the stored snapshot.
C10_ViewAlwaysMatches ==
  done.kind \in {"scan", "loadLast", "keep", "trash", "bulk"} =>
    view.dom = StoredView

\* C10 amended: whenever a snapshot is rendered, the rendering and the object
\* behind it equal the stored snapshot.
C10_RenderedMatchesStored ==
  view.dom # <<>> =>
    /\ view.dom = StoredView
    /\ lastScan = <<Shown>>

C10_Witness ==
  /\ view.dom # <<>>
  /\ done.kind = "bulk" /\ done.okIds # Range(done.ids)
  /\ \E h \in ScanSlots : scans[h] # Free

\* Where email i of the labeled sequence ended up: the (group, position) pairs
\* holding an email with its id.
PlacesOf(grouped, id) ==
  {<<g, k>> \in (1..Len(grouped)) \X (1..MaxLabeled + 1) :
     k <= Len(grouped[g].emails) /\ grouped[g].emails[k].id = id}

\* C11: grouping puts every labeled email in exactly one group, the group of
\* its sender key; the groups hold nothing else; inside a group the emails
\* keep their scan order; and render lists the groups by descending size.
C11_GroupingIsPartition ==
  done.kind = "grouped" =>
    LET labeled == done.labeled
        grouped == done.result.grouped
        order == done.result.order
    IN /\ done.result.threw = ""
       /\ \A i \in 1..Len(labeled) :
            /\ Cardinality(PlacesOf(grouped, labeled[i].id)) = 1
            /\ \A pl \in PlacesOf(grouped, labeled[i].id) :
                 /\ grouped[pl[1]].emails[pl[2]] = labeled[i]
                 /\ grouped[pl[1]].sender = SenderKey(labeled[i])
       /\ SeqSum([g \in 1..Len(grouped) |-> Len(grouped[g].emails)]) = Len(labeled)
       /\ \A g \in 1..Len(grouped) :
            /\ grouped[g].emails # <<>>
            /\ \A j, k \in 1..Len(grouped[g].emails) :
                 j < k => grouped[g].emails[j].id < grouped[g].emails[k].id
       /\ \A g, h \in 1..Len(grouped) : g # h => grouped[g].sender # grouped[h].sender
       /\ Range(order) = 1..Len(grouped)
       /\ \A r \in 1..(Len(order) - 1) :
            Len(grouped[order[r]].emails) >= Len(grouped[order[r + 1]].emails)

Busy ==
  \/ \E h \in ScanSlots : scans[h] # Free
  \/ \E h \in Slots : pending[h].kind = "bulk"

\* The step runs a Scan, Load-last, Keep, Trash or "Trash suggested" click
\* handler past its confirmation: one that ended in this turn, or one that
\* suspended at its first request.
ClickHandlerRuns ==
  \/ done'.kind \in {"loadLast", "keep"}
  \/ done'.kind \in {"trash", "bulk"} /\ done'.slot = 0
  \/ done'.kind = "scan" /\ scans' = scans
  \/ \E h \in Slots : pending[h] = Free /\ pending'[h] # Free
  \/ \E h \in ScanSlots : scans[h] = Free /\ scans'[h] # Free

\* C13: while a scan or a bulk trash is suspended at a network round trip, no
\* Scan, Load-last, Keep, Trash or "Trash suggested" handler runs.
C13_RunToCompletion == [][Busy => ~ClickHandlerRuns]_vars

\* The step sends a request to the mailbox: a scan suspends at a new
\* listMessageIds or getMessageMeta, a trash handler suspends at its
\* trashMessage, or a bulk handler goes on to its next trashMessage.
MailboxRequestStarts ==
  \/ \E h \in ScanSlots :
       /\ scans'[h] # Free /\ scans'[h] # scans[h]
       /\ scans'[h].await \in {"list", "meta"}
  \/ \E h \in Slots : pending[h] = Free /\ pending'[h] # Free
  \/ \E h \in Slots :
       /\ pending[h].kind = "bulk" /\ pending'[h].kind = "bulk"
       /\ pending'[h].pos # pending[h].pos

\* Neither localStorage document has a field for the access token or holds
\* its value.
TokenNotStored ==
  /\ settingsDoc # <<>> =>
       /\ DOMAIN settingsDoc[1] = {"googleClientId", "groqKey", "batchSize"}
       /\ settingsDoc[1].googleClientId # GrantedToken
       /\ settingsDoc[1].groqKey # GrantedToken
  /\ lastScan # <<>> => DOMAIN lastScan[1] = {"generatedAt", "total", "grouped"}

\* C14: a request goes to the mailbox only while an access token is held, so
\* without one listMessageIds, getMessageMeta and trashMessage fail before
\* any request; and no localStorage document ever holds the token.
C14_TokenCheckedNeverStored ==
  [][/\ MailboxRequestStarts => accessToken # ""
     /\ (done'.kind = "scan" /\ status' = Error("Not connected to Gmail yet")) =>
          accessToken = ""
     /\ TokenNotStored']_vars

\* A scan that failed at a later mailbox call after a Disconnect.
C14_Witness ==
  /\ done.kind = "scan" /\ done.outcome = "caught" /\ done.slot # 0
  /\ status = Error("Not connected to Gmail yet")
  /\ accessToken = "" /\ settingsDoc # <<>>

\* C15: normalizing a normalized sender changes nothing, and an empty From
\* header gives "(unknown)".
C15_NormalizeIdempotent ==
  done.kind = "normalized" =>
    /\ done.again = done.sender
    /\ done.from = <<>> => done.sender = Unknown

\* ids are the ids of exactly the emails of the group whose action is trash
\* (in any case) and that are not flagged trashed, each once, in group order.
IsSuggestedSelection(ids, emails) ==
  LET at(id) == {k \in 1..Len(emails) : emails[k].id = id}
  IN /\ Range(ids) = {emails[k].id : k \in {j \in 1..Len(emails) :
                          /\ LowerAction(emails[j].decision.action) = "trash"
                          /\ ~emails[j].trashed}}
     /\ \A i, j \in 1..Len(ids) :
          i < j => \A a \in at(ids[i]), b \in at(ids[j]) : a < b

\* C16: "Trash suggested" selects, at the click, the group's emails with
\* action trash that are not flagged trashed; it calls trashMessage for the
\* selected ids one at a time in that order, going on after a failure; and it
\* reports the number of calls that succeeded over the number selected.
C16_BulkSelectsAndReports ==
  [][/\ \A h \in Slots :
          (pending[h] = Free /\ pending'[h].kind = "bulk") =>
             /\ IsSuggestedSelection(pending'[h].ids,
                                      Shown.grouped[pending'[h].g].emails)
             /\ pending'[h].ids # <<>> /\ pending'[h].confirmed
             /\ pending'[h].pos = 1 /\ pending'[h].okIds = {}
     /\ \A h \in Slots :
          (pending[h].kind = "bulk" /\ pending'[h].kind = "bulk"
             /\ pending'[h].pos # pending[h].pos) =>
             /\ pending'[h].ids = pending[h].ids
             /\ pending'[h].pos = pending[h].pos + 1
             /\ pending'[h].pos <= Len(pending[h].ids)
             /\ pending'[h].okIds \in
                  {pending[h].okIds,
                   pending[h].okIds \cup {pending[h].ids[pending[h].pos]}}
     /\ done'.kind = "bulk" =>
          /\ status' = [k |-> "Trashed", ok |-> Cardinality(done'.okIds),
                        of |-> Len(done'.ids)]
          /\ done'.confirmed
          /\ done'.slot = 0 =>
               /\ IsSuggestedSelection(done'.ids, Shown.grouped[done'.g].emails)
               /\ done'.okIds = {} /\ accessToken = ""
          /\ done'.slot # 0 =>
               LET hd == pending[done'.slot]
               IN /\ hd.kind = "bulk" /\ done'.ids = hd.ids
                  /\ hd.pos = Len(hd.ids) \/ accessToken = ""
                  /\ done'.okIds \in {hd.okIds, hd.okIds \cup {hd.ids[hd.pos]}}]_vars

\* A bulk trash of two emails whose first call failed and second succeeded.
C16_Witness ==
  /\ done.kind = "bulk" /\ Len(done.ids) = 2
  /\ done.okIds = {done.ids[2]}
  /\ status = [k |-> "Trashed", ok |-> 1, of |-> 2]

\* The ids of a sequence of emails.
IdsOf(emails) == [i \in 1..Len(emails) |-> emails[i].id]

\* A step of a scan that fetches the metadata of the listed ids in list order
\* and classifies it in consecutive batches, of batchSize emails when
\* batchSize is at least 1, of one email when it is negative, and of whenZero
\* emails when it is 0: what a metadata response, a classification response
\* and the end of the scan leave.
ScanInBatches(whenZero) ==
  LET eff(b) == IF b = 0 THEN whenZero ELSE IF b < 1 THEN 1 ELSE b
  IN
  /\ \A h \in ScanSlots :
       (scans[h].kind = "scan" /\ scans'[h].kind = "scan"
          /\ scans'[h].metas # scans[h].metas) =>
          /\ Len(scans'[h].metas) = Len(scans[h].metas) + 1
          /\ SubSeq(scans'[h].metas, 1, Len(scans[h].metas)) = scans[h].metas
          /\ scans'[h].metas[Len(scans'[h].metas)].id =
               scans'[h].ids[Len(scans'[h].metas)]
          /\ scans'[h].labeled = <<>>
  /\ \A h \in ScanSlots :
       (scans[h].kind = "scan" /\ scans'[h].kind = "scan"
          /\ scans'[h].labeled # scans[h].labeled) =>
          LET n == Len(scans[h].ids)
              b == eff(scans[h].settings.batchSize)
              was == Len(scans[h].labeled)
              upto == IF was + b > n THEN n ELSE was + b
          IN /\ IdsOf(scans[h].metas) = scans[h].ids
             /\ IdsOf(scans'[h].labeled) = SubSeq(scans[h].ids, 1, upto)
             /\ SubSeq(scans'[h].labeled, 1, was) = scans[h].labeled
             /\ scans'[h].calls = scans[h].calls + 1
             /\ status' = [k |-> "Processed", n |-> upto, of |-> n]
  /\ (done'.kind = "scan" /\ done'.outcome = "ok") =>
       LET n == Len(done'.listed)
           b == eff(done'.batchSize)
       IN /\ done'.ids = done'.listed
          /\ done'.calls = (n + b - 1) \div b
          /\ status' = [k |-> "Done", total |-> n]
          /\ \A h \in ScanSlots :
               (scans[h].kind = "scan" /\ scans'[h] = Free /\ n > 0) =>
                  /\ IdsOf(scans[h].metas) = done'.listed
                  /\ Len(scans[h].labeled) + b >= n
                  /\ Len(scans[h].labeled) < n

\* C17 as stated: the batch size is batchSize clamped to at least 1.
C17_BatchesAsStated == [][ScanInBatches(1)]_vars

\* C17 amended: the batch size is batchSize when that is at least 1, 1 when
\* it is negative, and the default 10 when it is 0.
C17_BatchesOfEffectiveSize == [][ScanInBatches(DefaultBatchSize)]_vars

\* A scan of four messages in batches of three: two calls, the last smaller.
C17_Witness ==
  /\ done.kind = "scan" /\ done.outcome = "ok"
  /\ Len(done.listed) = 4 /\ done.batchSize = 3 /\ done.calls = 2

\* The snapshots the page holds: the stored one and those in memory.
Snapshots ==
  (IF lastScan = <<>> THEN {} ELSE {lastScan[1]})
    \cup {objs[o][1] : o \in {x \in ObjIds : objs[x] # <<>>}}

\* C18: in the stored snapshot and in every snapshot in memory, the decision
\* of every email carries the id of that email (so a decision the response
\* gave for another id is attached to no email).
C18_DecisionCarriesOwnId ==
  \A state \in Snapshots :
    \A e \in Range(AllEmails(state)) : e.decision.id = e.id

\* A scan's snapshot of two emails, one left with the default decision, after
\* a manual Keep.
C18_Witness ==
  /\ lastScan # <<>> /\ lastScan[1].generatedAt = 1
  /\ Len(AllEmails(lastScan[1])) = 2
  /\ \E e \in Range(AllEmails(lastScan[1])) : e.decision.reason = "No decision."
  /\ \E e \in Range(AllEmails(lastScan[1])) : e.decision.reason = "Manually kept."

\* C19: no step replaces the stored snapshot, or the rendered one, by a
\* snapshot of an earlier scan (one with an earlier generatedAt).
C19_NewerScanNotReplaced ==
  [][/\ (lastScan # <<>> /\ lastScan' # <<>>) =>
          lastScan'[1].generatedAt >= lastScan[1].generatedAt
     /\ (view.dom # <<>> /\ view'.dom # <<>>) =>
          ObjAfter.generatedAt >= Shown.generatedAt]_vars

\* The rows of a rendering, as (section, row) positions, and those whose
\* action pill is `pill`.
RowsOf(dom) ==
  UNION {{<<r, k>> : k \in 1..Len(dom.groups[r].rows)} : r \in 1..Len(dom.groups)}
RowsWithPill(dom, pill) ==
  {p \in RowsOf(dom) : dom.groups[p[1]].rows[p[2]].pill = pill}

\* Two snapshots have the same total and the same email ids, group by group.
SameEmails(a, b) ==
  /\ a.total = b.total
  /\ Len(a.grouped) = Len(b.grouped)
  /\ \A g \in 1..Len(a.grouped) :
       /\ a.grouped[g].sender = b.grouped[g].sender
       /\ IdsOf(a.grouped[g].emails) = IdsOf(b.grouped[g].emails)

====
